---- MODULE Spec2Model ----
(***************************************************************************)
(* Model of the two migration engines of the repository:                   *)
(*   scripts/migrate_to_mongodb.py   (document strategy, MongoDBMigrator)  *)
(*   scripts/migrate_to_supabase.py  (relational strategy,                 *)
(*                                    SupabaseMigrator)                    *)
(*                                                                         *)
(* Text values are sequences of tokens (a token is a character or a fixed  *)
(* piece of text such as the URI prefix), so that concatenation, prefix    *)
(* stripping and delimiter collisions are computed, not assumed.  A cell   *)
(* of the input table is an optional value: {} is the missing value (NaN   *)
(* of pandas, None of Python), {v} is the value v.                         *)
(***************************************************************************)
EXTENDS Integers, Sequences, FiniteSets, TLC

\* ------------------------------------------------------------ bounds
\* longest input table (rows of the CSV file)
MaxRows == 2
\* largest batch_size a run is started with
MaxBatch == 2
\* the millisecond clock read by datetime.now() stops advancing here
MaxClock == 1
\* how many times the same migration is run against the same store
MaxRuns == 2

\* ------------------------------------------------------------ values
None == {}
Some(x) == {x}
The(o) == CHOOSE x \in o : TRUE

\* tokens of the text values
PFX == "spotify:track:"
DELIM == "_"

Abs(n) == IF n < 0 THEN -n ELSE n

RECURSIVE GCD(_, _)
GCD(a, b) == IF b = 0 THEN a ELSE GCD(b, a % b)

\* the float n/d as a fraction in lowest terms with a positive denominator
Rat(n, d) ==
  LET s == IF d < 0 THEN -1 ELSE 1
      g == GCD(Abs(n), Abs(d))
  IN  <<(s * n) \div g, (s * d) \div g>>

\* min(r, 1.0)
CapAtOne(r) == IF r[1] > r[2] THEN <<1, 1>> ELSE r

\* one row of the table: the columns the migrations read
\*   uri        spotify_track_uri
\*   username   username
\*   ts         ts_x
\*   country    conn_country
\*   ms         ms_played_x
\*   dur        Track Duration (ms)_releases
\*   artist     master_metadata_album_artist_name_x
\*   artist_uri Artist URI(s)_releases
\*   album      master_metadata_album_album_name_x
\*   dance      Danceability
Row(uri, username, ts, country, ms, dur, artist, artist_uri, album, dance) ==
  [uri |-> uri, username |-> username, ts |-> ts, country |-> country,
   ms |-> ms, dur |-> dur, artist |-> artist, artist_uri |-> artist_uri,
   album |-> album, dance |-> dance]

\* ------------------------------------------------- transform_record
\* clean_value on a text cell
clean_value(value) ==
  IF value = None \/ value = Some(<<>>) \/ value = Some(<<"nan">>)
  THEN None ELSE value

\* clean_value on a numeric cell: a number is never '' or 'nan'
clean_number(value) == IF value = None THEN None ELSE value

\* how an f-string renders clean_value's result
FormatValue(o) == IF o = None THEN <<"None">> ELSE The(o)

\* the timestamps pd.to_datetime can parse, and the instants they denote
ValidTs == {<<"t1">>, <<"t2">>}
Instant(s) == IF s = <<"t1">> THEN 1 ELSE 2

parse_timestamp(ts_str) ==
  IF ts_str = None THEN None
  ELSE IF The(ts_str) \in ValidTs THEN Some(Instant(The(ts_str))) ELSE None

\* doc['_id']
RecordKey(row) ==
  FormatValue(clean_value(row.uri)) \o <<DELIM>> \o
  FormatValue(clean_value(row.username)) \o <<DELIM>> \o
  FormatValue(clean_value(row.ts))

\* Python truthiness of a cleaned numeric value
Truthy(o) == o # None /\ The(o) # 0

\* "Calculate completion rate if possible"
DocCompletionRate(ms, dur) ==
  IF Truthy(ms) /\ Truthy(dur)
  THEN Some(CapAtOne(Rat(The(ms), The(dur))))
  ELSE None

\* {k: v for k, v in doc[key].items() if v is not None}
DropNone(g) == [k \in {x \in DOMAIN g : g[x] # None} |-> g[k]]

GroupNames ==
  {"user", "track", "album", "artist", "listening", "audio_features", "metadata"}

\* the nested groups before the empty ones are removed
DocGroups(row) ==
  LET ms  == clean_number(row.ms)
      dur == clean_number(row.dur)
  IN  [user |-> [username |-> clean_value(row.username),
                 country  |-> clean_value(row.country)],
       track |-> [artist      |-> clean_value(row.artist),
                  album       |-> clean_value(row.album),
                  duration_ms |-> dur],
       album |-> [name |-> None, genres |-> Some(<<>>)],
       artist |-> [name   |-> None,
                   uri    |-> clean_value(row.artist_uri),
                   genres |-> Some(<<>>)],
       listening |-> [ms_played       |-> ms,
                      skipped         |-> Some(FALSE),
                      shuffle         |-> Some(FALSE),
                      offline         |-> Some(FALSE),
                      completion_rate |-> DocCompletionRate(ms, dur)],
       audio_features |-> [danceability |-> clean_number(row.dance)],
       metadata |-> [explicit |-> Some(FALSE), added_by |-> None]]

\* the document of one row, written at clock value now
transform_record(row, now) ==
  LET g    == DocGroups(row)
      kept == {n \in GroupNames : DOMAIN DropNone(g[n]) # {}}
  IN  [k \in {"_id", "spotify_track_uri", "timestamp", "migration"} \cup kept |->
         CASE k = "_id" -> RecordKey(row)
           [] k = "spotify_track_uri" -> clean_value(row.uri)
           [] k = "timestamp" -> parse_timestamp(row.ts)
           [] k = "migration" -> [created_at |-> now, source |-> "csv_import"]
           [] OTHER -> DropNone(g[k])]

\* ------------------------------------------------------ sample input
A(x) == Some(<<x>>)

\* the three rows of the specification's scenario: A and B are the same
\* event (same track, user and timestamp) with different values, C is
\* another user's event without ms_played
rowA == Row(Some(<<PFX, "a">>), A("alice"), A("t1"), A("US"),
            Some(1), Some(2), None, None, None, Some(1))
rowB == Row(Some(<<PFX, "a">>), A("alice"), A("t1"), None,
            Some(2), Some(2), None, None, None, None)
rowC == Row(Some(<<PFX, "b">>), A("bob"), A("t2"), None,
            None, None, None, None, None, None)
DocRows == {rowA, rowB, rowC}

SeqsUpTo(S, n) == UNION {[1..m -> S] : m \in 0..n}

\* the injective maps 1..n -> 1..n: the orders a batch can be executed in
Perms(n) == {p \in [1..n -> 1..n] : \A i, j \in 1..n : p[i] = p[j] => i = j}

Min(a, b) == IF a < b THEN a ELSE b

\* ------------------------------------------------------------- state
VARIABLES
  \* --- document run (MongoDBMigrator.run_migration)
  csv,              \* the input file: [readable, rows]
  batch_size,       \* run_migration's batch_size
  update_mode,      \* run_migration's update_mode
  create_indexes,   \* run_migration's create_indexes flag
  pc,               \* the orchestrator's state
  visited,          \* the states this run has been in, in order
  connected,        \* self.client is open
  index,            \* 0: the CSV is not loaded; i: row i is next
  batch_operations, \* the pending batch (documents, in row order)
  stats,            \* the MigrationStats counters
  collection,       \* the target collection: _id -> document
  clock,            \* datetime.now(), in milliseconds
  indexes,          \* the indexes that exist on the collection
  report,           \* what generate_migration_report printed
  runs,             \* runs started so far against this store
  past,             \* the stats of the earlier runs
  issued,           \* the calls this run has made on the collection, in order
  \* --- relational run (SupabaseMigrator.run_migration)
  rcsv,             \* the input file: [readable, rows]
  rbatch_size,      \* run_migration's batch_size
  rpc,              \* the orchestrator's state
  rvisited,         \* the states this run has been in, in order
  txn,              \* the connection: "closed", "open" or "aborted"
  db,               \* the tables as the connection sees them
  committed,        \* the tables as committed
  nextid,           \* the next uuid4 (uuids never repeat)
  entities,         \* what extract_unique_entities returned
  id_mappings,      \* what insert_entities returned
  rstep,            \* the statement of run_migration that is next
  rindex,           \* the row insert_listening_history is at
  batch_data,       \* its pending batch
  inserted_count,   \* its inserted_count
  rstats,           \* the statistics run_migration compiled
  rruns,            \* runs started so far against this store
  rpast,            \* the committed tables at the end of the earlier runs
  faulted,          \* the backend has failed a statement or a connection
  \* --- a function applied to one input
  input,            \* the input
  output,           \* the result
  applied           \* the function has been applied

docVars == <<csv, batch_size, update_mode, create_indexes, pc, visited,
             connected, index, batch_operations, stats, collection, clock,
             indexes, report, runs, past, issued>>

relVars == <<rcsv, rbatch_size, rpc, rvisited, txn, db, committed, nextid,
             entities, id_mappings, rstep, rindex, batch_data, inserted_count,
             rstats, rruns, rpast, faulted>>

pureVars == <<input, output, applied>>

vars == <<docVars, relVars, pureVars>>

\* --------------------------------------------------- the bulk write
\* {'$set': doc} on a stored document: the fields of doc are set, the
\* other top-level fields of the stored document are kept
SetFields(old, doc) ==
  [k \in DOMAIN old \cup DOMAIN doc |->
     IF k \in DOMAIN doc THEN doc[k] ELSE old[k]]

Put(coll, id, doc) ==
  [k \in DOMAIN coll \cup {id} |-> IF k = id THEN doc ELSE coll[k]]

\* one operation of a batch against the collection:
\*   UpdateOne({'_id': id}, {'$set': doc}, upsert=True)  in update mode
\*   InsertOne(doc)                                      otherwise
ApplyOp(coll, doc, upd) ==
  LET id == doc["_id"]
  IN  IF upd
      THEN IF id \in DOMAIN coll
           THEN LET new == SetFields(coll[id], doc)
                IN  [coll |-> [coll EXCEPT ![id] = new],
                     kind |-> IF new = coll[id] THEN "matched" ELSE "modified"]
           ELSE [coll |-> Put(coll, id, doc), kind |-> "upserted"]
      ELSE IF id \in DOMAIN coll
           THEN [coll |-> coll, kind |-> "duplicate"]
           ELSE [coll |-> Put(coll, id, doc), kind |-> "inserted"]

Count(b) == IF b THEN 1 ELSE 0

\* collection.bulk_write(operations, ordered=False): the server executes
\* the operations in an order of its choice (order), goes on after an
\* operation that fails, and reports the failures at the end.  An
\* operation fails on a duplicate _id (InsertOne) or because the backend
\* rejects it (rejected: the positions of the rejected operations).
RECURSIVE BulkWriteFrom(_, _, _, _, _, _)
BulkWriteFrom(res, operations, order, rejected, upd, i) ==
  IF i > Len(operations) THEN res
  ELSE LET j == order[i]
           r == ApplyOp(res.coll, operations[j], upd)
           nxt == IF j \in rejected \/ r.kind = "duplicate"
                  THEN [res EXCEPT !.errors = @ + 1]
                  ELSE [coll |-> r.coll,
                        inserted_count |-> res.inserted_count + Count(r.kind = "inserted"),
                        upserted_count |-> res.upserted_count + Count(r.kind = "upserted"),
                        modified_count |-> res.modified_count + Count(r.kind = "modified"),
                        errors |-> res.errors]
       IN  BulkWriteFrom(nxt, operations, order, rejected, upd, i + 1)

bulk_write(coll, operations, order, rejected, upd) ==
  BulkWriteFrom([coll |-> coll, inserted_count |-> 0, upserted_count |-> 0,
                 modified_count |-> 0, errors |-> 0],
                operations, order, rejected, upd, 1)

\* _execute_batch with "=" where the code has "+=": the counters are set to
\* the counts of the batch
execute_batch_assigning(operations, st, coll, order, rejected, upd) ==
  LET result == bulk_write(coll, operations, order, rejected, upd)
  IN  IF result.errors > 0
      THEN [coll |-> result.coll,
            stats |-> [st EXCEPT !.failed = Len(operations)]]
      ELSE [coll |-> result.coll,
            stats |-> IF upd
                      THEN [st EXCEPT !.inserted = result.upserted_count,
                                      !.updated = result.modified_count]
                      ELSE [st EXCEPT !.inserted = result.inserted_count]]

\* _execute_batch whose except branch starts the counts of written documents
\* again: a failed batch wipes what the earlier batches had counted
execute_batch_resetting(operations, st, coll, order, rejected, upd) ==
  LET result == bulk_write(coll, operations, order, rejected, upd)
  IN  IF result.errors > 0
      THEN [coll |-> result.coll,
            stats |-> [st EXCEPT !.failed = @ + Len(operations),
                                 !.inserted = 0, !.updated = 0]]
      ELSE [coll |-> result.coll,
            stats |-> IF upd
                      THEN [st EXCEPT !.inserted = @ + result.upserted_count,
                                      !.updated = @ + result.modified_count]
                      ELSE [st EXCEPT !.inserted = @ + result.inserted_count]]

\* _execute_batch that counts an upserted document as inserted and as
\* updated: matched_count + upserted_count where the code has modified_count
execute_batch_double_counting(operations, st, coll, order, rejected, upd) ==
  LET result == bulk_write(coll, operations, order, rejected, upd)
  IN  IF result.errors > 0
      THEN [coll |-> result.coll,
            stats |-> [st EXCEPT !.failed = @ + Len(operations)]]
      ELSE [coll |-> result.coll,
            stats |-> IF upd
                      THEN [st EXCEPT !.inserted = @ + result.upserted_count,
                                      !.updated = @ + result.modified_count
                                                    + result.upserted_count]
                      ELSE [st EXCEPT !.inserted = @ + result.inserted_count]]

\* _execute_batch: the counters and the collection after the batch
execute_batch(operations, st, coll, order, rejected, upd) ==
  LET result == bulk_write(coll, operations, order, rejected, upd)
  IN  IF result.errors > 0
      THEN \* BulkWriteError: "Batch operation failed"
           [coll |-> result.coll,
            stats |-> [st EXCEPT !.failed = @ + Len(operations)]]
      ELSE [coll |-> result.coll,
            stats |-> IF upd
                      THEN [st EXCEPT !.inserted = @ + result.upserted_count,
                                      !.updated = @ + result.modified_count]
                      ELSE [st EXCEPT !.inserted = @ + result.inserted_count]]

ZeroStats ==
  [total_records |-> 0, processed |-> 0, inserted |-> 0, updated |-> 0,
   failed |-> 0]

IndexNames == {"timestamp", "text"}
\* the order create_indexes goes through them: the regular indexes, then
\* the text index
IndexOrder == <<"timestamp", "text">>

\* what the log keeps of one bulk_write: the row the loop was at, the
\* operations, and how many of them the server reported as failed
BulkWriteCall(upto, operations, coll, order, rejected, upd) ==
  [call |-> "bulk_write", upto |-> upto, operations |-> operations,
   rejected |-> rejected,
   errors |-> bulk_write(coll, operations, order, rejected, upd).errors]

\* the tables of create_schema that the migration writes
EmptyDb ==
  [schema |-> FALSE, users |-> {}, artists |-> {}, albums |-> {}, tracks |-> {},
   listening_history |-> <<>>, audio_features |-> {}]

NoEntities == [users |-> <<>>, artists |-> <<>>, albums |-> <<>>, tracks |-> <<>>]

\* the relational migration is not run
RelIdle ==
  /\ rcsv = [readable |-> TRUE, rows |-> <<>>]
  /\ rbatch_size = 1
  /\ rpc = "Idle" /\ rvisited = <<"Idle">>
  /\ txn = "closed"
  /\ db = EmptyDb /\ committed = EmptyDb
  /\ nextid = 1
  /\ entities = NoEntities
  /\ id_mappings = <<>>
  /\ rstep = "connect"
  /\ rindex = 0 /\ batch_data = <<>> /\ inserted_count = 0
  /\ rstats = None
  /\ rruns = 1
  /\ rpast = <<>>
  /\ faulted = FALSE

\* no function is applied
PureIdle == input = None /\ output = None /\ applied = FALSE

\* the document migration is not run
DocIdle ==
  /\ csv = [readable |-> TRUE, rows |-> <<>>]
  /\ batch_size = 1 /\ update_mode = FALSE /\ create_indexes = FALSE
  /\ pc = "Idle" /\ visited = <<"Idle">>
  /\ connected = FALSE
  /\ index = 0 /\ batch_operations = <<>> /\ stats = ZeroStats
  /\ collection = <<>>
  /\ clock = 0
  /\ indexes = {}
  /\ report = None
  /\ runs = 1
  /\ past = <<>>
  /\ issued = <<>>

\* ------------------------------------- MongoDBMigrator.run_migration
Goto(p) == pc' = p /\ visited' = Append(visited, p)

DocParams == <<csv, batch_size, update_mode, create_indexes>>

\* run_migration is called
DocStart ==
  /\ pc = "Idle"
  /\ Goto("Connecting")
  /\ UNCHANGED <<relVars, pureVars>>
  /\ UNCHANGED <<DocParams, connected, index, batch_operations, stats,
                 collection, clock, indexes, report, runs, past, issued>>

\* a connect whose except block logs the error and does not re-raise
DocConnectSwallowed ==
  /\ pc = "Connecting"
  /\ connected' \in BOOLEAN
  /\ Goto("SchemaReady")
  /\ UNCHANGED <<relVars, pureVars>>
  /\ UNCHANGED <<DocParams, index, batch_operations, stats, collection,
                 clock, indexes, report, runs, past, issued>>

\* self.connect(): the ismaster command answers, or connect re-raises
DocConnect ==
  /\ pc = "Connecting"
  /\ \/ connected' = TRUE /\ Goto("SchemaReady")
     \/ connected' = FALSE /\ Goto("Failed")
  /\ UNCHANGED <<relVars, pureVars>>
  /\ UNCHANGED <<DocParams, index, batch_operations, stats, collection,
                 clock, indexes, report, runs, past, issued>>

\* migrate_csv_data is entered
DocBeginMigrate ==
  /\ pc = "SchemaReady"
  /\ Goto("Migrating")
  /\ UNCHANGED <<relVars, pureVars>>
  /\ UNCHANGED <<DocParams, connected, index, batch_operations, stats,
                 collection, clock, indexes, report, runs, past, issued>>

\* pd.read_csv: the table is loaded and the counters are set up, or the
\* error is logged and re-raised (run_migration's finally disconnects)
DocLoadCsv ==
  /\ pc = "Migrating" /\ index = 0
  /\ IF csv.readable
     THEN /\ stats' = [ZeroStats EXCEPT !.total_records = Len(csv.rows)]
          /\ index' = 1
          /\ batch_operations' = <<>>
          /\ UNCHANGED <<pc, visited, connected>>
     ELSE /\ Goto("Failed")
          /\ connected' = FALSE
          /\ UNCHANGED <<stats, index, batch_operations>>
  /\ UNCHANGED <<relVars, pureVars>>
  /\ UNCHANGED <<DocParams, collection, clock, indexes, report, runs, past,
                 issued>>

\* an iteration of the row loop without the try/except of the loop body: the
\* exception of a row leaves migrate_csv_data and ends the run
DocRowAborting ==
  /\ pc = "Migrating" /\ index >= 1 /\ index <= Len(csv.rows)
  /\ index' = index + 1
  /\ \/ /\ Goto("Failed")
        /\ connected' = FALSE
        /\ UNCHANGED <<stats, batch_operations, collection, clock, issued>>
     \/ \E now \in clock..Min(clock + 1, MaxClock) :
          LET doc == transform_record(csv.rows[index], now)
              ops == Append(batch_operations, doc)
              st  == [stats EXCEPT !.processed = @ + 1]
          IN  /\ clock' = now
              /\ UNCHANGED <<pc, visited, connected>>
              /\ IF Len(ops) >= batch_size
                 THEN \E order \in Perms(Len(ops)), rejected \in SUBSET (1..Len(ops)) :
                        LET r == execute_batch(ops, st, collection, order, rejected, update_mode)
                        IN  /\ stats' = r.stats
                            /\ collection' = r.coll
                            /\ batch_operations' = <<>>
                            /\ issued' = Append(issued, BulkWriteCall(index, ops,
                                                   collection, order, rejected, update_mode))
                 ELSE /\ batch_operations' = ops
                      /\ stats' = st
                      /\ UNCHANGED <<collection, issued>>
  /\ UNCHANGED <<relVars, pureVars>>
  /\ UNCHANGED <<DocParams, indexes, report, runs, past>>

\* one iteration of "for index, row in df.iterrows()"
DocRow ==
  /\ pc = "Migrating" /\ index >= 1 /\ index <= Len(csv.rows)
  /\ index' = index + 1
  /\ \/ \* the row raises: "Error processing record"
        /\ stats' = [stats EXCEPT !.failed = @ + 1]
        /\ UNCHANGED <<batch_operations, collection, clock, issued>>
     \/ \E now \in clock..Min(clock + 1, MaxClock) :
          LET doc == transform_record(csv.rows[index], now)
              ops == Append(batch_operations, doc)
              st  == [stats EXCEPT !.processed = @ + 1]
          IN  /\ clock' = now
              /\ IF Len(ops) >= batch_size
                 THEN \E order \in Perms(Len(ops)), rejected \in SUBSET (1..Len(ops)) :
                        LET r == execute_batch(ops, st, collection, order, rejected, update_mode)
                        IN  /\ stats' = r.stats
                            /\ collection' = r.coll
                            /\ batch_operations' = <<>>
                            /\ issued' = Append(issued, BulkWriteCall(index, ops,
                                                   collection, order, rejected, update_mode))
                 ELSE /\ batch_operations' = ops
                      /\ stats' = st
                      /\ UNCHANGED <<collection, issued>>
  /\ UNCHANGED <<relVars, pureVars>>
  /\ UNCHANGED <<DocParams, pc, visited, connected, indexes, report, runs, past>>

\* migrate_csv_data returning without "Execute remaining operations": the
\* operations still in batch_operations are never given to bulk_write
DocFlushDropping ==
  /\ pc = "Migrating" /\ index = Len(csv.rows) + 1
  /\ Goto(IF create_indexes THEN "Indexing" ELSE "Reporting")
  /\ UNCHANGED <<relVars, pureVars>>
  /\ UNCHANGED <<DocParams, connected, index, batch_operations, clock,
                 indexes, report, runs, past, stats, collection, issued>>

\* "Execute remaining operations", then migrate_csv_data returns
DocFlush ==
  /\ pc = "Migrating" /\ index = Len(csv.rows) + 1
  /\ IF batch_operations # <<>>
     THEN \E order \in Perms(Len(batch_operations)),
             rejected \in SUBSET (1..Len(batch_operations)) :
            LET r == execute_batch(batch_operations, stats, collection, order,
                                   rejected, update_mode)
            IN  /\ stats' = r.stats /\ collection' = r.coll
                /\ issued' = Append(issued, BulkWriteCall(Len(csv.rows), batch_operations,
                                       collection, order, rejected, update_mode))
     ELSE UNCHANGED <<stats, collection, issued>>
  /\ Goto(IF create_indexes THEN "Indexing" ELSE "Reporting")
  /\ UNCHANGED <<relVars, pureVars>>
  /\ UNCHANGED <<DocParams, connected, index, batch_operations, clock,
                 indexes, report, runs, past>>

\* create_indexes: every index is attempted, a failure is logged
DocCreateIndexes ==
  /\ pc = "Indexing"
  /\ \E failing \in SUBSET IndexNames :
       /\ indexes' = indexes \cup (IndexNames \ failing)
       /\ issued' = issued \o [i \in 1..Len(IndexOrder) |->
                                 [call |-> "create_index", name |-> IndexOrder[i],
                                  ok |-> IndexOrder[i] \notin failing]]
  /\ Goto("Reporting")
  /\ UNCHANGED <<relVars, pureVars>>
  /\ UNCHANGED <<DocParams, connected, index, batch_operations, stats,
                 collection, clock, report, runs, past>>

\* success_rate = ((processed - failed) / total_records) * 100
SuccessRate(st) == Rat((st.processed - st.failed) * 100, st.total_records)

\* generate_migration_report, then "finally: self.disconnect()"
DocReport ==
  /\ pc = "Reporting"
  /\ IF stats.total_records = 0
     THEN \* ZeroDivisionError after the counters are printed
          /\ report' = Some([stats |-> stats, success_rate |-> None])
          /\ Goto("Failed")
          /\ UNCHANGED issued
     ELSE /\ report' = Some([stats |-> stats,
                             success_rate |-> Some(SuccessRate(stats))])
          /\ issued' = Append(issued, [call |-> "collStats"])
          /\ Goto("Done")
  /\ connected' = FALSE
  /\ UNCHANGED <<relVars, pureVars>>
  /\ UNCHANGED <<DocParams, index, batch_operations, stats, collection,
                 clock, indexes, runs, past>>

\* the same migration is started again against the same collection
DocRerun ==
  /\ pc \in {"Done", "Failed"} /\ runs < MaxRuns
  /\ runs' = runs + 1
  /\ past' = Append(past, stats)
  /\ pc' = "Idle" /\ visited' = <<"Idle">>
  /\ index' = 0 /\ batch_operations' = <<>> /\ stats' = ZeroStats
  /\ report' = None
  /\ issued' = <<>>
  /\ UNCHANGED <<relVars, pureVars>>
  /\ UNCHANGED <<DocParams, connected, collection, clock, indexes>>

DocInit ==
  /\ csv \in {[readable |-> TRUE, rows |-> r] : r \in SeqsUpTo(DocRows, MaxRows)}
             \cup {[readable |-> FALSE, rows |-> <<>>]}
  /\ batch_size \in 1..MaxBatch
  /\ update_mode \in BOOLEAN
  /\ create_indexes \in BOOLEAN
  /\ pc = "Idle" /\ visited = <<"Idle">>
  /\ connected = FALSE
  /\ index = 0 /\ batch_operations = <<>> /\ stats = ZeroStats
  /\ collection = <<>>
  /\ clock = 0
  /\ indexes = {}
  /\ report = None
  /\ runs = 1
  /\ past = <<>>
  /\ issued = <<>>
  /\ RelIdle
  /\ PureIdle

DocNext ==
  \/ DocStart \/ DocConnect \/ DocBeginMigrate \/ DocLoadCsv \/ DocRow
  \/ DocFlush \/ DocCreateIndexes \/ DocReport \/ DocRerun

Spec == DocInit /\ [][DocNext]_vars

\* ------------------------------------------ extract_unique_entities
\* str.replace('spotify:track:', ''): every occurrence is removed
StripPrefix(s) == SelectSeq(s, LAMBDA t : t # PFX)

\* df[cols]
Project(df, cols) == [i \in 1..Len(df) |-> [c \in cols |-> df[i][c]]]

\* a drop_duplicates that compares a row with the row before it only
DropAdjacentDuplicates(s) ==
  LET F[i \in 0..Len(s)] ==
        IF i = 0 THEN <<>>
        ELSE IF i > 1 /\ s[i] = s[i - 1] THEN F[i - 1]
        ELSE Append(F[i - 1], s[i])
  IN  F[Len(s)]

\* DataFrame.drop_duplicates(): the first of equal rows is kept, in order
RECURSIVE drop_duplicates(_)
drop_duplicates(s) ==
  IF s = <<>> THEN <<>>
  ELSE LET init == drop_duplicates(SubSeq(s, 1, Len(s) - 1))
           last == s[Len(s)]
       IN  IF \E i \in 1..Len(init) : init[i] = last THEN init
           ELSE Append(init, last)

\* DataFrame.dropna(subset=[col])
dropna(s, col) == SelectSeq(s, LAMBDA r : r[col] # None)

\* the entities of the table df; base is the first fresh uuid
extract_unique_entities(df, base) ==
  LET users_df   == dropna(drop_duplicates(Project(df, {"username", "country"})), "username")
      artists_df == dropna(drop_duplicates(Project(df, {"artist", "artist_uri"})), "artist")
      albums_df  == dropna(drop_duplicates(Project(df, {"album"})), "album")
      tracks_df  == dropna(drop_duplicates(Project(df, {"uri", "dur"})), "uri")
      b2 == base + Len(users_df)
      b3 == b2 + Len(artists_df)
      b4 == b3 + Len(albums_df)
  IN  [users |-> [i \in 1..Len(users_df) |->
                    [id |-> base + i - 1,
                     spotify_user_id |-> The(users_df[i].username),
                     username |-> The(users_df[i].username),
                     country |-> users_df[i].country]],
       artists |-> [i \in 1..Len(artists_df) |->
                      [id |-> b2 + i - 1,
                       name |-> The(artists_df[i].artist),
                       spotify_uri |-> artists_df[i].artist_uri]],
       albums |-> [i \in 1..Len(albums_df) |->
                     [id |-> b3 + i - 1, name |-> The(albums_df[i].album)]],
       tracks |-> [i \in 1..Len(tracks_df) |->
                     [id |-> b4 + i - 1,
                      spotify_track_id |-> StripPrefix(The(tracks_df[i].uri)),
                      spotify_uri |-> The(tracks_df[i].uri),
                      duration_ms |-> tracks_df[i].dur]]]

EntityCount(e) == Len(e.users) + Len(e.artists) + Len(e.albums) + Len(e.tracks)

\* ----------------------------------------------------- insert_entities
\* the columns of each table that create_schema declares PRIMARY KEY or
\* UNIQUE: the only columns ON CONFLICT (column) can name
UniqueColumns ==
  [users   |-> {"id", "spotify_user_id", "username", "email"},
   artists |-> {"id", "spotify_artist_id"},
   albums  |-> {"id", "spotify_album_id"},
   tracks  |-> {"id", "spotify_track_id"}]

\* INSERT ... ON CONFLICT (keycol) DO UPDATE: the row of the statement takes
\* the place of the stored row of its key, id included
RECURSIVE InsertReplace(_, _, _)
InsertReplace(table, rows, keycol) ==
  IF rows = <<>> THEN table
  ELSE LET row == Head(rows)
           t2  == {t \in table : t[keycol] # row[keycol]} \cup {row}
       IN  InsertReplace(t2, Tail(rows), keycol)

\* INSERT ... ON CONFLICT (keycol) DO NOTHING, one statement per row
RECURSIVE InsertIgnore(_, _, _)
InsertIgnore(table, rows, keycol) ==
  IF rows = <<>> THEN table
  ELSE LET row == Head(rows)
           t2  == IF \E t \in table : t[keycol] = row[keycol]
                  THEN table ELSE table \cup {row}
       IN  InsertIgnore(t2, Tail(rows), keycol)

\* {row[keycol]: row['id'] for row in cursor.fetchall()}
IdMapping(table, keycol) ==
  [k \in {t[keycol] : t \in table} |-> (CHOOSE t \in table : t[keycol] = k).id]

\* one "if <table>_data:" block of insert_entities; st is
\* [raised, db, id_mappings].  PostgreSQL refuses ON CONFLICT (keycol)
\* when no unique constraint matches keycol.
InsertTable(st, table, rows, keycol) ==
  IF st.raised \/ rows = <<>> THEN st
  ELSE IF keycol \notin UniqueColumns[table]
  THEN [st EXCEPT !.raised = TRUE]
  ELSE LET t2 == InsertIgnore(st.db[table], rows, keycol)
       IN  [raised |-> FALSE,
            db |-> [st.db EXCEPT ![table] = t2],
            id_mappings |-> Put(st.id_mappings, table, IdMapping(t2, keycol))]

insert_entities(d, e) ==
  LET s0 == [raised |-> FALSE, db |-> d, id_mappings |-> <<>>]
      s1 == InsertTable(s0, "users", e.users, "username")
      s2 == InsertTable(s1, "artists", e.artists, "name")
      s3 == InsertTable(s2, "albums", e.albums, "name")
  IN  InsertTable(s3, "tracks", e.tracks, "spotify_track_id")

\* --------------------------------------------- insert_listening_history
\* "Calculate completion rate"
RelCompletionRate(ms_played, duration_ms) ==
  IF ms_played # None /\ duration_ms # None /\ The(duration_ms) > 0
  THEN Some(CapAtOne(Rat(The(ms_played), The(duration_ms))))
  ELSE None

\* dict.get
Get(m, k) == IF k \in DOMAIN m THEN Some(m[k]) ELSE None

\* the tuple of a row when "if not user_id or not track_id: continue" is
\* left out: an unresolved id is written as NULL (0, the id of no entity)
ListeningTupleUnguarded(row, maps) ==
  IF "users" \notin DOMAIN maps \/ row.uri = None \/ "tracks" \notin DOMAIN maps
  THEN None
  ELSE LET user_id   == IF row.username = None THEN None
                        ELSE Get(maps["users"], The(row.username))
           track_id  == Get(maps["tracks"], StripPrefix(The(row.uri)))
           played_at == parse_timestamp(row.ts)
       IN  IF played_at = None
           THEN None
           ELSE Some([user_id |-> IF user_id = None THEN 0 ELSE The(user_id),
                      track_id |-> IF track_id = None THEN 0 ELSE The(track_id),
                      played_at |-> The(played_at), ms_played |-> row.ms,
                      completion_rate |-> RelCompletionRate(row.ms, row.dur)])

\* the tuple one row adds to batch_data, or None when the row is skipped:
\* a KeyError (no mapping of users or tracks), an AttributeError (the URI
\* is NaN), an unresolved user or track, or an unparsable timestamp
ListeningTuple(row, maps) ==
  IF "users" \notin DOMAIN maps \/ row.uri = None \/ "tracks" \notin DOMAIN maps
  THEN None
  ELSE LET user_id   == IF row.username = None THEN None
                        ELSE Get(maps["users"], The(row.username))
           track_id  == Get(maps["tracks"], StripPrefix(The(row.uri)))
           played_at == parse_timestamp(row.ts)
       IN  IF user_id = None \/ track_id = None \/ played_at = None
           THEN None
           ELSE Some([user_id |-> The(user_id), track_id |-> The(track_id),
                      played_at |-> The(played_at), ms_played |-> row.ms,
                      completion_rate |-> RelCompletionRate(row.ms, row.dur)])

\* _execute_listening_batch: INSERT INTO listening_history, no ON CONFLICT
execute_listening_batch(d, batch) ==
  [d EXCEPT !.listening_history = @ \o batch]

\* ------------------------------------------------ insert_audio_features
\* batch_data of insert_audio_features
AudioBatch(df, maps) ==
  LET adf == dropna(drop_duplicates(Project(df, {"uri", "dance"})), "uri")
      tid(r) == Get(maps["tracks"], StripPrefix(The(r.uri)))
      kept == SelectSeq(adf, LAMBDA r : tid(r) # None /\ r.dance # None)
  IN  [i \in 1..Len(kept) |->
         [track_id |-> The(tid(kept[i])), danceability |-> kept[i].dance]]

\* ------------------------------------- SupabaseMigrator.run_migration
RelGoto(p) == rpc' = p /\ rvisited' = Append(rvisited, p)

RelParams == <<rcsv, rbatch_size>>

\* the exception leaves run_migration: "finally: self.disconnect()"
\* closes the connection, and what was not committed is rolled back
RelRaise ==
  /\ RelGoto("Failed")
  /\ txn' = "closed"
  /\ db' = committed

\* run_migration is called
RelStart ==
  /\ rpc = "Idle"
  /\ RelGoto("Connecting")
  /\ rstep' = "connect"
  /\ UNCHANGED <<docVars, pureVars>>
  /\ UNCHANGED <<RelParams, txn, db, committed, nextid, entities, id_mappings,
                 rindex, batch_data, inserted_count, rstats, rruns, rpast, faulted>>

\* self.connect()
RelConnect ==
  /\ rpc = "Connecting" /\ rstep = "connect"
  /\ \/ /\ txn' = "open" /\ rstep' = "create_schema"
        /\ UNCHANGED <<rpc, rvisited, db, faulted>>
     \/ /\ RelRaise /\ faulted' = TRUE
        /\ UNCHANGED rstep
  /\ UNCHANGED <<docVars, pureVars>>
  /\ UNCHANGED <<RelParams, committed, nextid, entities, id_mappings,
                 rindex, batch_data, inserted_count, rstats, rruns, rpast>>

\* self.create_schema(): CREATE TABLE IF NOT EXISTS ..., commit; or
\* rollback and re-raise
RelCreateSchema ==
  /\ rpc = "Connecting" /\ rstep = "create_schema"
  /\ \/ /\ db' = [db EXCEPT !.schema = TRUE]
        /\ committed' = db'
        /\ RelGoto("SchemaReady")
        /\ rstep' = "create_indexes"
        /\ UNCHANGED <<txn, faulted>>
     \/ /\ RelRaise /\ faulted' = TRUE
        /\ UNCHANGED <<rstep, committed>>
  /\ UNCHANGED <<docVars, pureVars>>
  /\ UNCHANGED <<RelParams, nextid, entities, id_mappings,
                 rindex, batch_data, inserted_count, rstats, rruns, rpast>>

\* self.create_indexes() is entered
RelBeginIndexes ==
  /\ rpc = "SchemaReady" /\ rstep = "create_indexes"
  /\ RelGoto("Indexing")
  /\ UNCHANGED <<docVars, pureVars>>
  /\ UNCHANGED <<RelParams, txn, db, committed, nextid, entities, id_mappings,
                 rstep, rindex, batch_data, inserted_count, rstats, rruns, rpast, faulted>>

\* self.cursor.execute(indexes_sql), commit; or rollback and re-raise.
\* When it returns, the CSV is loaded: the migration of the data begins.
RelCreateIndexes ==
  /\ rpc = "Indexing" /\ rstep = "create_indexes"
  /\ \/ /\ RelGoto("Migrating")
        /\ rstep' = "read_csv"
        /\ UNCHANGED <<txn, db, faulted>>
     \/ /\ RelRaise /\ faulted' = TRUE
        /\ UNCHANGED rstep
  /\ UNCHANGED <<docVars, pureVars>>
  /\ UNCHANGED <<RelParams, committed, nextid, entities, id_mappings,
                 rindex, batch_data, inserted_count, rstats, rruns, rpast>>

\* df = pd.read_csv(csv_file_path)
RelReadCsv ==
  /\ rpc = "Migrating" /\ rstep = "read_csv"
  /\ IF rcsv.readable
     THEN /\ rstep' = "extract"
          /\ UNCHANGED <<rpc, rvisited, txn, db>>
     ELSE /\ RelRaise
          /\ UNCHANGED rstep
  /\ UNCHANGED <<docVars, pureVars>>
  /\ UNCHANGED <<RelParams, committed, nextid, entities, id_mappings,
                 rindex, batch_data, inserted_count, rstats, rruns, rpast, faulted>>

\* entities = self.extract_unique_entities(df)
RelExtract ==
  /\ rpc = "Migrating" /\ rstep = "extract"
  /\ entities' = extract_unique_entities(rcsv.rows, nextid)
  /\ nextid' = nextid + EntityCount(entities')
  /\ rstep' = "insert_entities"
  /\ UNCHANGED <<docVars, pureVars>>
  /\ UNCHANGED <<RelParams, rpc, rvisited, txn, db, committed, id_mappings,
                 rindex, batch_data, inserted_count, rstats, rruns, rpast, faulted>>

\* id_mappings = self.insert_entities(entities): the four inserts and the
\* commit, or an exception (a refused statement, or a backend failure)
RelInsertEntities ==
  /\ rpc = "Migrating" /\ rstep = "insert_entities"
  /\ LET r == insert_entities(db, entities)
     IN  \/ /\ ~r.raised
            /\ db' = r.db
            /\ committed' = r.db
            /\ id_mappings' = r.id_mappings
            /\ rstep' = "listening"
            /\ rindex' = 1 /\ batch_data' = <<>> /\ inserted_count' = 0
            /\ UNCHANGED <<rpc, rvisited, txn, faulted>>
         \/ /\ r.raised
            /\ RelRaise
            /\ UNCHANGED <<committed, id_mappings, rstep, rindex, batch_data,
                           inserted_count, faulted>>
         \/ /\ RelRaise /\ faulted' = TRUE
            /\ UNCHANGED <<committed, id_mappings, rstep, rindex, batch_data,
                           inserted_count>>
  /\ UNCHANGED <<docVars, pureVars>>
  /\ UNCHANGED <<RelParams, nextid, entities, rstats, rruns, rpast>>

\* one iteration of "for _, row in df.iterrows()" of
\* insert_listening_history.  A batch that fails is caught by the loop's
\* except: batch_data and inserted_count stay, and the transaction is
\* aborted, so every later statement on the connection fails too.
RelListenRow ==
  /\ rpc = "Migrating" /\ rstep = "listening" /\ rindex <= Len(rcsv.rows)
  /\ rindex' = rindex + 1
  /\ LET t == ListeningTuple(rcsv.rows[rindex], id_mappings)
         batch == batch_data \o (IF t = None THEN <<>> ELSE <<The(t)>>)
     IN  IF t # None /\ Len(batch) >= rbatch_size
         THEN \/ /\ txn = "open"
                 /\ db' = execute_listening_batch(db, batch)
                 /\ inserted_count' = inserted_count + Len(batch)
                 /\ batch_data' = <<>>
                 /\ UNCHANGED <<txn, faulted>>
              \/ /\ txn = "open"
                 /\ txn' = "aborted" /\ faulted' = TRUE
                 /\ batch_data' = batch
                 /\ UNCHANGED <<db, inserted_count>>
              \/ /\ txn = "aborted"
                 /\ batch_data' = batch
                 /\ UNCHANGED <<txn, db, inserted_count, faulted>>
         ELSE /\ batch_data' = batch
              /\ UNCHANGED <<txn, db, inserted_count, faulted>>
  /\ UNCHANGED <<docVars, pureVars>>
  /\ UNCHANGED <<RelParams, rpc, rvisited, committed, nextid, entities,
                 id_mappings, rstep, rstats, rruns, rpast>>

\* "Execute remaining batch", self.conn.commit(), return inserted_count
RelListenFlush ==
  /\ rpc = "Migrating" /\ rstep = "listening" /\ rindex = Len(rcsv.rows) + 1
  /\ \/ /\ txn = "open"
        /\ db' = execute_listening_batch(db, batch_data)
        /\ committed' = db'
        /\ inserted_count' = inserted_count + Len(batch_data)
        /\ batch_data' = <<>>
        /\ rstep' = "audio_features"
        /\ UNCHANGED <<rpc, rvisited, txn, faulted>>
     \/ /\ txn = "open" /\ batch_data # <<>>
        /\ RelRaise /\ faulted' = TRUE
        /\ UNCHANGED <<committed, inserted_count, batch_data, rstep>>
     \/ /\ txn = "aborted" /\ batch_data # <<>>
        /\ RelRaise
        /\ UNCHANGED <<committed, inserted_count, batch_data, rstep, faulted>>
  /\ UNCHANGED <<docVars, pureVars>>
  /\ UNCHANGED <<RelParams, nextid, entities, id_mappings, rindex, rstats, rruns, rpast>>

\* audio_features_count = self.insert_audio_features(df, id_mappings),
\* then the statistics are compiled
RelAudioFeatures ==
  /\ rpc = "Migrating" /\ rstep = "audio_features"
  /\ LET batch == AudioBatch(rcsv.rows, id_mappings)
     IN  \/ /\ db' = [db EXCEPT !.audio_features = InsertIgnore(@, batch, "track_id")]
            /\ committed' = db'
            /\ rstats' = Some([users |-> Len(entities.users),
                               artists |-> Len(entities.artists),
                               albums |-> Len(entities.albums),
                               tracks |-> Len(entities.tracks),
                               listening_history |-> inserted_count,
                               audio_features |-> Len(batch)])
            /\ RelGoto("Reporting")
            /\ rstep' = "report"
            /\ UNCHANGED <<txn, faulted>>
         \/ /\ batch # <<>>
            /\ RelRaise /\ faulted' = TRUE
            /\ UNCHANGED <<committed, rstats, rstep>>
  /\ UNCHANGED <<docVars, pureVars>>
  /\ UNCHANGED <<RelParams, nextid, entities, id_mappings, rindex, batch_data,
                 inserted_count, rruns, rpast>>

\* self.generate_migration_report(stats); return stats; disconnect
RelReport ==
  /\ rpc = "Reporting"
  /\ RelGoto("Done")
  /\ txn' = "closed"
  /\ rstep' = "end"
  /\ UNCHANGED <<docVars, pureVars>>
  /\ UNCHANGED <<RelParams, db, committed, nextid, entities, id_mappings,
                 rindex, batch_data, inserted_count, rstats, rruns, rpast, faulted>>

\* the same migration is started again against the same database
RelRerun ==
  /\ rpc \in {"Done", "Failed"} /\ rruns < MaxRuns
  /\ rruns' = rruns + 1
  /\ rpast' = Append(rpast, committed)
  /\ rpc' = "Idle" /\ rvisited' = <<"Idle">>
  /\ rstep' = "connect"
  /\ entities' = NoEntities /\ id_mappings' = <<>>
  /\ rindex' = 0 /\ batch_data' = <<>> /\ inserted_count' = 0
  /\ rstats' = None
  /\ UNCHANGED <<docVars, pureVars>>
  /\ UNCHANGED <<RelParams, txn, db, committed, nextid, faulted>>

\* a row with an artist and an album name
rowD == Row(Some(<<PFX, "a">>), A("alice"), A("t2"), A("US"),
            Some(0), Some(2), A("Daft Punk"), None, A("Discovery"), None)
\* a row without a username: no user of id_mappings resolves it
rowF == Row(Some(<<PFX, "b">>), None, A("t2"), None,
            Some(1), Some(2), None, None, None, Some(1))
\* a row whose track URI is the prefix alone: 'spotify:track:'
rowG == Row(Some(<<PFX>>), A("alice"), A("t1"), None,
            Some(1), Some(2), None, None, None, None)
RelRows == DocRows \cup {rowD, rowF, rowG}

RelInit ==
  /\ rcsv \in {[readable |-> TRUE, rows |-> r] : r \in SeqsUpTo(RelRows, MaxRows)}
              \cup {[readable |-> FALSE, rows |-> <<>>]}
  /\ rbatch_size \in 1..MaxBatch
  /\ rpc = "Idle" /\ rvisited = <<"Idle">>
  /\ txn = "closed"
  /\ db = EmptyDb /\ committed = EmptyDb
  /\ nextid = 1
  /\ entities = NoEntities
  /\ id_mappings = <<>>
  /\ rstep = "connect"
  /\ rindex = 0 /\ batch_data = <<>> /\ inserted_count = 0
  /\ rstats = None
  /\ rruns = 1
  /\ rpast = <<>>
  /\ faulted = FALSE
  /\ DocIdle
  /\ PureIdle

RelNext ==
  \/ RelStart \/ RelConnect \/ RelCreateSchema \/ RelBeginIndexes
  \/ RelCreateIndexes \/ RelReadCsv \/ RelExtract \/ RelInsertEntities
  \/ RelListenRow \/ RelListenFlush \/ RelAudioFeatures \/ RelReport
  \/ RelRerun

SpecRel == RelInit /\ [][RelNext]_vars

\* ------------------------------------------- the document strategy's claims
\* migrate_csv_data has returned
Migrated == pc \in {"Indexing", "Reporting", "Done"}

\* the keys of the input rows, and the last row of each key in row order
InputKeys == {RecordKey(csv.rows[i]) : i \in 1..Len(csv.rows)}
LastRowOf(k) ==
  csv.rows[CHOOSE i \in 1..Len(csv.rows) :
             /\ RecordKey(csv.rows[i]) = k
             /\ \A j \in (i + 1)..Len(csv.rows) : RecordKey(csv.rows[j]) # k]

\* the stored document carries every value of the document of row
\* (created_at aside, which is the time of the write)
CarriesValuesOf(stored, row) ==
  LET doc == transform_record(row, 0)
  IN  \A f \in DOMAIN doc \ {"migration"} : f \in DOMAIN stored /\ stored[f] = doc[f]

\* C1: when a document-store migration run ends,
\* processed = inserted + updated + failed
C1_PartialFailureAccounting ==
  Migrated => stats.processed = stats.inserted + stats.updated + stats.failed

\* C2: after the same rows have been written twice in upsert mode (two runs
\* without a failure), the collection holds exactly one document per distinct
\* record key, with the values of the last write (the last row of that key)
C2_UpsertIdempotence ==
  (/\ Migrated /\ update_mode /\ runs = 2
   /\ stats.failed = 0 /\ past[1].failed = 0
   /\ past[1].processed = Len(csv.rows))
  => /\ DOMAIN collection = InputKeys
     /\ \A k \in DOMAIN collection : CarriesValuesOf(collection[k], LastRowOf(k))

\* C6: after the rows have been written in upsert mode without a failure, the
\* document stored under a key carries the values of the last row of that
\* key in the original row order
C6_LastWriteWinsInRowOrder ==
  (Migrated /\ update_mode /\ runs = 1 /\ stats.failed = 0)
  => \A k \in DOMAIN collection : CarriesValuesOf(collection[k], LastRowOf(k))

\* C10: once Migrating has been entered the document run never ends in
\* Failed: Failed is entered from Connecting only
C10_NoHardFailureAfterMigrating ==
  pc = "Failed" =>
    \A i \in 1..Len(visited) : visited[i] \notin {"Migrating", "Indexing", "Reporting"}

\* ----------------------------------------- the relational strategy's claims
\* insert_entities has been executed (it returned or it raised)
EntitiesResolved ==
  \/ rstep \in {"listening", "audio_features", "report", "end"}
  \/ rstep = "insert_entities" /\ rpc = "Failed"

\* the distinct non-missing natural keys of the rows of df, per entity type
NaturalKeys(df) ==
  LET Keys(col) == {The(df[i][col]) : i \in {j \in 1..Len(df) : df[j][col] # None}}
  IN  [users |-> Keys("username"), artists |-> Keys("artist"),
       albums |-> Keys("album"),
       tracks |-> {StripPrefix(k) : k \in Keys("uri")}]

EntityTypes == {"users", "artists", "albums", "tracks"}

\* C3: after entity resolution of a table into an empty database (no backend
\* failure), each entity table holds exactly one entity per distinct
\* non-missing natural key of the input, compared case-sensitively
C3_CollapseByNaturalKey ==
  (rruns = 1 /\ ~faulted /\ EntitiesResolved)
  => \A t \in EntityTypes :
       Cardinality(committed[t]) = Cardinality(NaturalKeys(rcsv.rows)[t])

\* C5: a second complete run over the same rows (no backend failure) leaves
\* the database with the records the first run committed: none duplicated
C5_ResumableIdempotentWritePath ==
  (rruns = 2 /\ rpc = "Done" /\ ~faulted) => committed = rpast[1]

\* ------------------------------------------------ entity resolution alone
\* longest table entity resolution is applied to
MaxResolveRows == 3

\* "Daft Punk" in lower case: another artist
rowE == Row(Some(<<PFX, "a">>), A("alice"), A("t2"), A("US"),
            Some(0), Some(2), A("daft punk"), None, A("Discovery"), None)
ResolveRows == {rowA, rowC, rowD, rowE}

\* the rows of df in the order given by the permutation order
Permute(df, order) == [i \in 1..Len(df) |-> df[order[i]]]

\* len(entities[t]) of each entity type
Counts(e) == [t \in EntityTypes |-> Len(e[t])]

ResolveInit ==
  /\ input \in UNION {{[df |-> r, order |-> p] : p \in Perms(Len(r))} :
                         r \in SeqsUpTo(ResolveRows, MaxResolveRows)}
  /\ output = None /\ applied = FALSE
  /\ DocIdle /\ RelIdle

\* extract_unique_entities applied to the table and to the reordered table
ResolveApply ==
  /\ ~applied
  /\ output' = [first  |-> Counts(extract_unique_entities(input.df, 1)),
                second |-> Counts(extract_unique_entities(
                                    Permute(input.df, input.order), 1))]
  /\ applied' = TRUE
  /\ UNCHANGED <<input, docVars, relVars>>

SpecResolve == ResolveInit /\ [][ResolveApply]_vars

\* C4: entity resolution of the same rows in two row orders yields the same
\* number of distinct entities of each type
C4_IdempotentIdentity == applied => output.first = output.second

\* rows in another order, some of which collapse into one entity
C4_Witness ==
  /\ applied
  /\ Permute(input.df, input.order) # input.df
  /\ \E t \in EntityTypes : 0 < output.first[t] /\ output.first[t] < Len(input.df)
  /\ output.first = output.second

\* ------------------------------------------------------ the record key alone
\* text cells of the key columns: missing, the text "None", and texts with
\* and without the delimiter
KeyTexts ==
  {None, A("None"), A("a"), A("c"),
   Some(<<"a", DELIM, "b">>), Some(<<"b", DELIM, "c">>)}
KeyStamps == {None, A("t1")}

\* a row with the given key columns and nothing else
KeyRow(uri, username, ts) ==
  Row(uri, username, ts, None, None, None, None, None, None, None)

KeyRows == {KeyRow(u, n, t) : u \in KeyTexts, n \in KeyTexts, t \in KeyStamps}

KeyInit ==
  /\ input \in {[r1 |-> x, r2 |-> y] : x \in KeyRows, y \in KeyRows}
  /\ output = None /\ applied = FALSE
  /\ DocIdle /\ RelIdle

\* transform_record applied to two rows: the _id of each document
KeyApply ==
  /\ ~applied
  /\ output' = [k1 |-> transform_record(input.r1, 0)["_id"],
                k2 |-> transform_record(input.r2, 0)["_id"]]
  /\ applied' = TRUE
  /\ UNCHANGED <<input, docVars, relVars>>

SpecKey == KeyInit /\ [][KeyApply]_vars

\* C7: two rows have the same record key exactly when they have the same
\* (track URI, username, timestamp) triple
C7_RecordKeyIdentity ==
  applied => (output.k1 = output.k2 <=> input.r1 = input.r2)

\* ------------------------------------------------- the completion rate alone
\* ms_played and the track duration range over -MaxMs..MaxMs
MaxMs == 3

RateValues == {None} \cup {Some(n) : n \in (0 - MaxMs)..MaxMs}

\* a row of a known user and track with the given ms_played and duration
RateRow(ms, dur) ==
  Row(Some(<<PFX, "a">>), A("alice"), A("t1"), None, ms, dur, None, None, None, None)

\* doc['listening'].get('completion_rate')
DocRateOf(doc) ==
  IF "completion_rate" \in DOMAIN doc["listening"]
  THEN doc["listening"]["completion_rate"] ELSE None

\* the id mappings after the row's user and track were inserted
RateMaps == [users |-> (<<"alice">> :> 1), tracks |-> (<<"a">> :> 2)]

RateInit ==
  /\ input \in {[ms |-> m, dur |-> d] : m \in RateValues, d \in RateValues}
  /\ output = None /\ applied = FALSE
  /\ DocIdle /\ RelIdle

\* the completion rate each strategy writes for the row
RateApply ==
  /\ ~applied
  /\ LET row == RateRow(input.ms, input.dur)
     IN  output' = [doc |-> DocRateOf(transform_record(row, 0)),
                    rel |-> The(ListeningTuple(row, RateMaps)).completion_rate]
  /\ applied' = TRUE
  /\ UNCHANGED <<input, docVars, relVars>>

SpecRate == RateInit /\ [][RateApply]_vars

\* C8: when ms_played and the duration are both present, the completion
\* rate either strategy writes lies in [0, 1]
C8_CompletionRateInUnitInterval ==
  (applied /\ input.ms # None /\ input.dur # None)
  => \A r \in output.doc \cup output.rel : 0 <= r[1] /\ r[1] <= r[2]

\* C9: when ms_played or the duration is missing or zero, neither strategy
\* writes a completion rate
C9_AbsentCompletionRate ==
  (applied /\ (\/ input.ms = None \/ input.ms = Some(0)
               \/ input.dur = None \/ input.dur = Some(0)))
  => output.doc = None /\ output.rel = None

\* ---------------------------------------------- the order of a run's states
StateOrder ==
  <<"Idle", "Connecting", "SchemaReady", "Migrating", "Indexing", "Reporting", "Done">>

\* C11: a relational run that ends in Done has been through Idle, Connecting,
\* SchemaReady, Migrating, Indexing, Reporting, Done in this order: the
\* indexes are created after the data is written, the report after the indexes
C11_RunStateOrder == rpc = "Done" => rvisited = StateOrder

\* ------------------------------------------------- the connection of a run
\* connect() has returned in this run
HasConnected == \E i \in 1..Len(visited) : visited[i] = "SchemaReady"

PartlyRejectedWrite ==
  /\ Len(issued') = Len(issued) + 1
  /\ issued'[Len(issued')].call = "bulk_write"
  /\ issued'[Len(issued')].errors > 0
  /\ issued'[Len(issued')].errors < Len(issued'[Len(issued')].operations)

\* C13: when the server rejects some operations of a batch and accepts the
\* others, failed grows by the number of rejected operations and inserted +
\* updated grows by the number of accepted ones
C13_PerOperationFailureAccounting ==
  [][PartlyRejectedWrite =>
       LET w == issued'[Len(issued')]
       IN  /\ stats'.failed = stats.failed + w.errors
           /\ stats'.inserted + stats'.updated =
                stats.inserted + stats.updated + Len(w.operations) - w.errors]_vars

\* ------------------------------------------ the fact rows of the relational run
\* the user or the track of the row has no surrogate id in maps
\* ("if not user_id or not track_id")
Unresolved(row, maps) ==
  \/ row.username = None \/ row.uri = None
  \/ "users" \notin DOMAIN maps \/ "tracks" \notin DOMAIN maps
  \/ Get(maps["users"], The(row.username)) = None
  \/ Get(maps["tracks"], StripPrefix(The(row.uri))) = None

UnresolvedRows ==
  {i \in 1..Len(rcsv.rows) : Unresolved(rcsv.rows[i], id_mappings)}

\* C14: a relational run that ends reports as failed the fact rows whose
\* user or track could not be resolved, and writes none of them
C14_UnresolvableRowsCountedFailed ==
  (rpc = "Done" /\ UnresolvedRows # {}) =>
     /\ "failed" \in DOMAIN The(rstats)
     /\ The(rstats).failed = Cardinality(UnresolvedRows)

\* the fact rows of d reference users and tracks the store has committed
ReferencesPersisted(d) ==
  /\ \A i \in 1..Len(d.listening_history) :
       /\ \E u \in committed.users : u.id = d.listening_history[i].user_id
       /\ \E t \in committed.tracks : t.id = d.listening_history[i].track_id
  /\ \A a \in d.audio_features :
       \E t \in committed.tracks : t.id = a.track_id

\* the fact tables as the run found them
FactsAtStart ==
  IF rruns = 1 THEN [listening_history |-> <<>>, audio_features |-> {}]
  ELSE [listening_history |-> rpast[rruns - 1].listening_history,
        audio_features |-> rpast[rruns - 1].audio_features]

\* the run has written a fact row
FactsWritten ==
  \/ db.listening_history # FactsAtStart.listening_history
  \/ db.audio_features # FactsAtStart.audio_features

\* C15: every listening-history and audio-feature row of the database
\* references a user and a track that are committed, and a run writes fact
\* rows only after insert_entities has committed the entities and read
\* id_mappings back from the store
C15_ReferentialIntegrity ==
  /\ ReferencesPersisted(db)
  /\ ReferencesPersisted(committed)
  /\ FactsWritten =>
       /\ rstep \in {"listening", "audio_features", "report", "end"}
       /\ \A t \in DOMAIN id_mappings \cap {"users", "tracks"} :
            id_mappings[t] =
              IdMapping(committed[t], IF t = "users" THEN "username"
                                      ELSE "spotify_track_id")

\* a completed run that wrote a listening row and an audio-feature row and
\* skipped an unresolved row
C15_Witness ==
  /\ rpc = "Done"
  /\ UnresolvedRows # {}
  /\ FactsWritten
  /\ db.listening_history # <<>> /\ db.audio_features # {}

\* --------------------------------------------------------- index creation
\* the relational run has ended with the exception of create_indexes
FailedInIndexing ==
  /\ rpc = "Failed"
  /\ Len(rvisited) >= 2
  /\ rvisited[Len(rvisited) - 1] = "Indexing"

\* C16: a failure of an index creation never ends the run: no run of the
\* relational backend goes from Indexing to Failed
C16_IndexFailuresIsolated == ~FailedInIndexing

\* ------------------------------------------------------------------ retry
\* the calls of bulk_write of the run, by their position in issued
BulkWrites == {i \in 1..Len(issued) : issued[i].call = "bulk_write"}

\* the batch of call i is given to bulk_write again later in the run
Resubmitted(i) ==
  \E j \in BulkWrites : j > i /\ issued[j].upto = issued[i].upto

\* call i is the first submission of its batch
FirstSubmission(i) ==
  \A j \in BulkWrites : j < i => issued[j].upto # issued[i].upto

\* C17: when migrate_csv_data has returned, every batch whose first
\* submission was rejected by the backend has been submitted again
C17_BoundedRetry ==
  Migrated =>
    \A i \in BulkWrites :
      (FirstSubmission(i) /\ issued[i].rejected # {}) => Resubmitted(i)

\* ----------------------------------------------------------------- report
\* the run is over
RunEnded == pc \in {"Done", "Failed"}

\* C18: every document run that got past connection and has ended has
\* produced the report: the counters and the success rate
C18_ReportAlwaysProduced ==
  (RunEnded /\ HasConnected) =>
     /\ report # None
     /\ The(report).stats = stats
     /\ The(report).success_rate # None

\* --------------------------------------------------------------- counters
\* the counters of MigrationStats that the run adds to
Counters == {"processed", "inserted", "updated", "failed"}

\* C19: no step of a document run lowers processed, inserted, updated or
\* failed, and total_records keeps the value it got when the CSV was loaded
C19_MonotonicCounters ==
  [][runs' = runs =>
       /\ \A c \in Counters : stats'[c] >= stats[c]
       /\ index >= 1 => stats'.total_records = stats.total_records]_vars

\* a run in which two batches were counted: both rows processed, one
\* inserted, the other updated or failed
C19_Witness ==
  /\ Migrated
  /\ batch_size = 1
  /\ stats.total_records = 2 /\ stats.processed = 2
  /\ stats.inserted = 1
  /\ stats.updated + stats.failed = 1

\* ------------------------------------------------- transform_record alone
\* a text cell: missing, the empty string, or a text
GroupTexts == {None, Some(<<>>), A("x")}
\* a cell of the other columns: missing or present
GroupCells(v) == {None, v}

\* the rows transform_record is applied to: every column missing or present
GroupRows ==
  {Row(uri, username, ts, country, ms, dur, artist, artist_uri, album, dance) :
     uri \in GroupCells(Some(<<PFX, "a">>)), username \in GroupTexts,
     ts \in GroupCells(A("t1")), country \in GroupTexts,
     ms \in GroupCells(Some(1)), dur \in GroupCells(Some(2)),
     artist \in GroupCells(A("Daft Punk")),
     artist_uri \in GroupCells(A("u")),
     album \in GroupCells(A("Discovery")), dance \in GroupCells(Some(1))}

\* the columns of the table each nested group is read from; the table has
\* none of the columns of album and metadata
GroupSources ==
  [user           |-> {"username", "country"},
   track          |-> {"artist", "album", "dur"},
   album          |-> {},
   artist         |-> {"artist_uri"},
   listening      |-> {"ms"},
   audio_features |-> {"dance"},
   metadata       |-> {}]

\* the cell is blank or missing
Blank(cell) == cell = None \/ cell = Some(<<>>)

TransformInit ==
  /\ input \in GroupRows
  /\ output = None /\ applied = FALSE
  /\ DocIdle /\ RelIdle

\* doc = self.transform_record(row)
TransformApply ==
  /\ ~applied
  /\ output' = transform_record(input, 0)
  /\ applied' = TRUE
  /\ UNCHANGED <<input, docVars, relVars>>

SpecTransform == TransformInit /\ [][TransformApply]_vars

\* C20: the document of a row has no nested group whose source columns are
\* all blank or missing in the row
C20_EmptyGroupsOmitted ==
  applied =>
    \A g \in GroupNames :
      (\A c \in GroupSources[g] : Blank(input[c])) => g \notin DOMAIN output

\* ------------------------------------------------------ the empty track key
\* the natural key of a track: the URI without its prefix
EmptyKey == <<>>

\* C21: no track with an empty natural key is extracted, stored or mapped:
\* a row whose URI is the prefix alone has no track
C21_EmptyTrackKeyAbsent ==
  /\ \A i \in 1..Len(entities.tracks) : entities.tracks[i].spotify_track_id # EmptyKey
  /\ \A t \in db.tracks : t.spotify_track_id # EmptyKey
  /\ "tracks" \in DOMAIN id_mappings => EmptyKey \notin DOMAIN id_mappings["tracks"]

\* --------------------------------------------------------------- batching
\* the operations given to bulk_write so far in the run, in order
SubmittedOps ==
  LET F[i \in 0..Len(issued)] ==
        IF i = 0 THEN <<>>
        ELSE IF issued[i].call = "bulk_write" THEN F[i - 1] \o issued[i].operations
        ELSE F[i - 1]
  IN  F[Len(issued)]

\* the operations appended to batch_operations and not yet given to bulk_write
PendingOps == IF pc = "Migrating" THEN batch_operations ELSE <<>>

\* ops are the documents of rows of the CSV, each row at most once, in row order
DocumentsOfRows(ops) ==
  \E f \in [1..Len(ops) -> 1..Len(csv.rows)] :
     /\ \A j, k \in 1..Len(ops) : j < k => f[j] < f[k]
     /\ \A k \in 1..Len(ops) :
          ops[k] = transform_record(csv.rows[f[k]], ops[k].migration.created_at)

\* C22: no bulk write holds more than batch_size operations, fewer than
\* batch_size operations are pending between two rows, and the operations
\* written and pending are the documents of the transformed rows, each
\* exactly once; when migrate_csv_data has returned they have all been written
C22_BatchingExactlyOnce ==
  /\ \A i \in BulkWrites :
       /\ Len(issued[i].operations) >= 1
       /\ Len(issued[i].operations) <= batch_size
  /\ pc = "Migrating" => Len(batch_operations) < batch_size
  /\ (pc = "Migrating" \/ Migrated) =>
       /\ Len(SubmittedOps) + Len(PendingOps) = stats.processed
       /\ DocumentsOfRows(SubmittedOps \o PendingOps)

\* the final partial batch was flushed: of two rows one was transformed, and
\* its operation was written although the batch never reached batch_size
C22_Witness ==
  /\ Migrated
  /\ batch_size = 2 /\ Len(csv.rows) = 2
  /\ stats.processed = 1
  /\ Len(SubmittedOps) = 1

\* ------------------------------------------------------- a failed batch
\* this step has called bulk_write and the call raised BulkWriteError
FailedWrite ==
  /\ Len(issued') = Len(issued) + 1
  /\ issued'[Len(issued')].call = "bulk_write"
  /\ issued'[Len(issued')].errors > 0

\* C23: a bulk write that fails leaves inserted, updated and total_records
\* as they were and adds to failed; the batch is dropped and the run goes
\* on with the next row, or to the steps after the loop
C23_FailedBatchIsolated ==
  [][FailedWrite =>
       /\ stats'.inserted = stats.inserted
       /\ stats'.updated = stats.updated
       /\ stats'.total_records = stats.total_records
       /\ stats'.failed = stats.failed + Len(issued'[Len(issued')].operations)
       /\ \/ pc' = "Migrating" /\ index' = index + 1 /\ batch_operations' = <<>>
          \/ pc' \in {"Indexing", "Reporting"}]_vars

\* a batch failed after an earlier batch was counted, and a failed batch
\* was followed by a batch that was written
C23_Witness ==
  /\ Migrated
  /\ \E i, j \in BulkWrites :
       /\ i < j
       /\ issued[i].errors > 0
       /\ issued[j].errors = 0
  /\ stats.inserted = 1 /\ stats.failed = 1

\* ------------------------------------------------------------- a row error
\* this step is an iteration of the row loop in which the row raised: the
\* loop went past the row and the row was not counted as processed
RowRaised ==
  /\ pc = "Migrating" /\ index >= 1
  /\ index' = index + 1
  /\ stats'.processed = stats.processed

\* C24: a row that raises adds one to failed and changes nothing else: no
\* operation is added or written, processed, inserted and updated stay, and
\* the loop goes on with the next row
C24_RowErrorsLocal ==
  [][RowRaised =>
       /\ stats' = [stats EXCEPT !.failed = @ + 1]
       /\ batch_operations' = batch_operations
       /\ collection' = collection
       /\ issued' = issued
       /\ pc' = "Migrating"]_vars

\* the first of two rows raised and the second was transformed and written
C24_Witness ==
  /\ Migrated
  /\ Len(csv.rows) = 2
  /\ stats.failed = 1 /\ stats.processed = 1 /\ stats.inserted = 1
  /\ \E i \in BulkWrites :
       /\ issued[i].operations = <<transform_record(csv.rows[2],
                                     issued[i].operations[1].migration.created_at)>>
       /\ csv.rows[1] # csv.rows[2]

\* ----------------------------------------------------- upsert on a stored key
\* this step has written a batch of one UpdateOne(upsert=True), accepted by
\* the server
SingleUpsert ==
  /\ update_mode
  /\ Len(issued') = Len(issued) + 1
  /\ issued'[Len(issued')].call = "bulk_write"
  /\ Len(issued'[Len(issued')].operations) = 1
  /\ issued'[Len(issued')].errors = 0

\* C25: after a record is written in upsert mode the document stored under
\* its key is the record written: no field of an earlier version survives
C25_UpsertReplaces ==
  [][SingleUpsert =>
       LET doc == issued'[Len(issued')].operations[1]
       IN  /\ doc["_id"] \in DOMAIN collection'
           /\ collection'[doc["_id"]] = doc]_vars

\* ------------------------------------------------------------ id_mappings
\* the natural-key column each mapping of insert_entities is keyed by
KeyColumn ==
  [users |-> "username", artists |-> "name", albums |-> "name",
   tracks |-> "spotify_track_id"]

\* the entity tables as the previous run left them
StoreAtStart == IF rruns = 1 THEN EmptyDb ELSE rpast[rruns - 1]

\* C26: each mapping of id_mappings sends a natural key to the id of the one
\* stored entity of that key, different keys to different ids, and a key the
\* store already held when the run began to the id it was stored with
C26_StableInjectiveIdMap ==
  \A t \in DOMAIN id_mappings :
    LET map == id_mappings[t]
    IN  /\ \A k \in DOMAIN map :
             /\ Cardinality({e \in db[t] : e[KeyColumn[t]] = k}) = 1
             /\ \E e \in db[t] : e[KeyColumn[t]] = k /\ e.id = map[k]
        /\ \A j, k \in DOMAIN map : map[j] = map[k] => j = k
        /\ \A e \in StoreAtStart[t] :
             /\ e[KeyColumn[t]] \in DOMAIN map
             /\ map[e[KeyColumn[t]]] = e.id

\* the second run on a store that holds the entities of the first: two
\* tracks are mapped, and the id of the user is the stored one, not the one
\* extract_unique_entities has generated in this run
C26_Witness ==
  /\ rruns = 2
  /\ StoreAtStart.users # {} /\ StoreAtStart.tracks # {}
  /\ DOMAIN id_mappings = {"users", "tracks"}
  /\ Cardinality(DOMAIN id_mappings["tracks"]) = 2
  /\ EmptyKey \notin DOMAIN id_mappings["tracks"]
  /\ \E i \in 1..Len(entities.users) :
       id_mappings["users"][entities.users[i].username] # entities.users[i].id

\* ---------------------------------------------------------- counter bounds
\* C27: at every point of a document run processed and failed are at most
\* total_records, inserted + updated is at most processed, and every row
\* is counted at most once as inserted, updated or failed
C27_CounterBounds ==
  /\ stats.processed <= stats.total_records
  /\ stats.failed <= stats.total_records
  /\ stats.inserted + stats.updated <= stats.processed
  /\ stats.inserted + stats.updated + stats.failed <= stats.total_records
  /\ stats.total_records \in {0, Len(csv.rows)}

\* failed reaches total_records: one row raised and the batch of the other
\* row failed
C27_Witness ==
  /\ Migrated
  /\ stats.total_records = 2
  /\ stats.processed = 1
  /\ stats.failed = 2
  /\ \E i \in BulkWrites : issued[i].errors = 1

\* ------------------------------------------------------------ success rate
\* C28: the success rate of the report is a percentage: between 0 and 100
C28_SuccessRatePercentage ==
  \A rep \in report :
    \A rate \in rep.success_rate :
      /\ 0 <= rate[1]
      /\ rate[1] <= 100 * rate[2]

\* ------------------------------------------------ the relational statistics
\* C29: when the first run on an empty database has ended, each count of
\* its statistics is the number of rows the table holds
C29_ReportedCountsEqualStored ==
  (rruns = 1 /\ rpc = "Done") =>
     /\ \A t \in EntityTypes : The(rstats)[t] = Cardinality(committed[t])
     /\ The(rstats).listening_history = Len(committed.listening_history)
     /\ The(rstats).audio_features = Cardinality(committed.audio_features)

\* ------------------------------------------- the two strategies, one row
\* C30: for every ms_played and duration, the completion rate written by
\* transform_record and the one written by insert_listening_history are
\* the same: both absent or the same number
C30_StrategiesAgreeOnCompletionRate ==
  applied => output.doc = output.rel

====
